---- MODULE Spec2Model ----
(***************************************************************************)
(* Model of expense.py: an SQLite-backed expense ledger with budgets,      *)
(* keyword rules, CSV import and CSV export.                               *)
(*                                                                         *)
(* Text is modelled as a sequence of one-character strings, so that        *)
(* strip(), lower(), split(), LIKE, strptime() and the money conversions   *)
(* are computed character by character as the code computes them.          *)
(***************************************************************************)
EXTENDS Integers, Sequences, FiniteSets, TLC

(***************************************************************************)
(* Bounds of the model.                                                    *)
(***************************************************************************)
MaxStoreExpenses == 2    \* Spec: the largest expense id
MaxStoreRules == 1       \* Spec: the largest rule id
MaxRules == 2            \* SpecRules: the largest rule id
MaxLedgerExpenses == 3   \* SpecLedger: the largest expense id
MaxReportExpenses == 3   \* SpecReport: the largest expense id
MaxExchangeExpenses == 3 \* SpecExchange: the largest expense id
MaxExchangeRules == 1    \* SpecExchange: the largest rule id

(***************************************************************************)
(* Characters.                                                             *)
(***************************************************************************)
DigitChars == <<"0", "1", "2", "3", "4", "5", "6", "7", "8", "9">>
UpperChars == <<"A", "B", "C", "D", "E", "F", "G", "H", "I", "J", "K", "L", "M",
                "N", "O", "P", "Q", "R", "S", "T", "U", "V", "W", "X", "Y", "Z">>
LowerChars == <<"a", "b", "c", "d", "e", "f", "g", "h", "i", "j", "k", "l", "m",
                "n", "o", "p", "q", "r", "s", "t", "u", "v", "w", "x", "y", "z">>
\* the characters of the model in ASCII order (the order SQLite's BINARY
\* collation compares TEXT by)
AsciiOrder == <<" ", "%", ",", "-", ".", "/">> \o DigitChars \o UpperChars
              \o <<"_">> \o LowerChars
Whitespace == {" "}

Range(s) == {s[i] : i \in DOMAIN s}
IndexIn(c, s) == CHOOSE i \in DOMAIN s : s[i] = c
Ord(c) == IndexIn(c, AsciiOrder)
IsDigitChar(c) == c \in Range(DigitChars)
DigitVal(c) == IndexIn(c, DigitChars) - 1

\* str.isdigit(): every character a digit and at least one character
isdigit(s) == s # <<>> /\ \A i \in DOMAIN s : IsDigitChar(s[i])

LowerChar(c) == IF c \in Range(UpperChars) THEN LowerChars[IndexIn(c, UpperChars)] ELSE c
\* str.lower()
lower(s) == [i \in DOMAIN s |-> LowerChar(s[i])]

RECURSIVE lstrip(_)
lstrip(s) == IF s # <<>> /\ Head(s) \in Whitespace THEN lstrip(Tail(s)) ELSE s
RECURSIVE rstrip(_)
rstrip(s) == IF s # <<>> /\ s[Len(s)] \in Whitespace
             THEN rstrip(SubSeq(s, 1, Len(s) - 1)) ELSE s
\* str.strip()
strip(s) == rstrip(lstrip(s))

\* str.count(c) for a one-character c
count(s, c) == Cardinality({i \in DOMAIN s : s[i] = c})

\* str.split(c): the pieces between the occurrences of c
RECURSIVE split(_, _)
split(s, c) ==
    IF \A i \in DOMAIN s : s[i] # c THEN <<s>>
    ELSE LET k == CHOOSE i \in DOMAIN s : s[i] = c /\ \A j \in 1..(i - 1) : s[j] # c
         IN  <<SubSeq(s, 1, k - 1)>> \o split(SubSeq(s, k + 1, Len(s)), c)

\* str.replace(c, "") for a one-character c
RECURSIVE remove(_, _)
remove(s, c) == IF s = <<>> THEN <<>>
                ELSE IF Head(s) = c THEN remove(Tail(s), c)
                ELSE <<Head(s)>> \o remove(Tail(s), c)

\* Python's `a in b` on strings
contains(b, a) == \E i \in 1..(Len(b) - Len(a) + 1) : SubSeq(b, i, i + Len(a) - 1) = a

\* int(s) for a string of digits
RECURSIVE int(_)
int(s) == IF s = <<>> THEN 0
          ELSE int(SubSeq(s, 1, Len(s) - 1)) * 10 + DigitVal(s[Len(s)])

\* str(n) for n >= 0
RECURSIVE str(_)
str(n) == IF n < 10 THEN <<DigitChars[n + 1]>>
          ELSE str(n \div 10) \o <<DigitChars[(n % 10) + 1]>>

\* format(n, "02d") for n >= 0
fmt02d(n) == IF n < 10 THEN <<"0">> \o str(n) ELSE str(n)
\* format(n, "04d") for n >= 0
RECURSIVE zfill(_, _)
zfill(s, w) == IF Len(s) >= w THEN s ELSE zfill(<<"0">> \o s, w)

\* lexicographic comparison of TEXT values (a <= b)
RECURSIVE TextLeq(_, _)
TextLeq(a, b) ==
    IF a = <<>> THEN TRUE
    ELSE IF b = <<>> THEN FALSE
    ELSE IF Head(a) = Head(b) THEN TextLeq(Tail(a), Tail(b))
    ELSE Ord(Head(a)) < Ord(Head(b))

\* the outcome of a function that either returns or raises SystemExit
Ok(v) == [ok |-> TRUE, val |-> v, err |-> "none"]
Exit(msg) == [ok |-> FALSE, val |-> 0, err |-> msg]

\* an Optional[str]: None, or a string
None == [null |-> TRUE, s |-> <<>>]
Some(s) == [null |-> FALSE, s |-> s]
\* Python's `x or ""` and SQL's COALESCE(x, '')
OrEmpty(x) == IF x.null THEN <<>> ELSE x.s
\* Python's `s or None`
OrNone(s) == IF s = <<>> THEN None ELSE Some(s)

(***************************************************************************)
(* Money.                                                                  *)
(***************************************************************************)
\* a reading that keeps the whole dollars and drops the fraction
dollars_to_cents_whole(s0) ==
    LET s == strip(s0) IN
    IF s = <<>> THEN Exit("Amount cannot be empty.")
    ELSE IF count(s, ".") > 1 THEN Exit("Invalid amount format.")
    ELSE LET parts == split(s, ".")
             dollars == parts[1]
             cents0 == IF Len(parts) = 1 THEN <<"0">> ELSE parts[2]
         IN  IF ~isdigit(dollars) \/ (cents0 # <<>> /\ ~isdigit(cents0))
             THEN Exit("Amount must be a number like 12 or 12.34")
             ELSE Ok(int(dollars) * 100)

dollars_to_cents(s0) ==
    LET s == strip(s0) IN
    IF s = <<>> THEN Exit("Amount cannot be empty.")
    ELSE IF count(s, ".") > 1 THEN Exit("Invalid amount format.")
    ELSE LET parts == split(s, ".")
             dollars == parts[1]
             cents0 == IF Len(parts) = 1 THEN <<"0">> ELSE parts[2]
         IN  IF ~isdigit(dollars) \/ (cents0 # <<>> /\ ~isdigit(cents0))
             THEN Exit("Amount must be a number like 12 or 12.34")
             ELSE LET cents1 == IF Len(cents0) = 0 THEN <<"0">> ELSE cents0
                      cents2 == IF Len(cents1) = 1 THEN cents1 \o <<"0">> ELSE cents1
                      cents3 == IF Len(cents2) > 2 THEN SubSeq(cents2, 1, 2) ELSE cents2
                  IN  Ok(int(dollars) * 100 + int(cents3))

\* a rendering of the cents without the zero padding of "02d"
cents_to_dollars_unpadded(cents) ==
    LET sign == IF cents < 0 THEN <<"-">> ELSE <<>>
        a == IF cents < 0 THEN -cents ELSE cents
    IN  sign \o str(a \div 100) \o <<".">> \o str(a % 100)

cents_to_dollars(cents) ==
    LET sign == IF cents < 0 THEN <<"-">> ELSE <<>>
        a == IF cents < 0 THEN -cents ELSE cents
    IN  sign \o str(a \div 100) \o <<".">> \o fmt02d(a % 100)

(***************************************************************************)
(* Dates, months, categories.                                              *)
(***************************************************************************)
IsLeap(y) == (y % 4 = 0 /\ y % 100 # 0) \/ y % 400 = 0
DaysIn(y, m) == IF m = 2 THEN (IF IsLeap(y) THEN 29 ELSE 28)
                ELSE IF m \in {4, 6, 9, 11} THEN 30 ELSE 31

\* date(y, m, d).isoformat()
isoformat(y, m, d) == zfill(str(y), 4) \o <<"-">> \o fmt02d(m) \o <<"-">> \o fmt02d(d)

\* The strptime directives: %Y is exactly four digits; %m and %d are one or
\* two digits naming a number from 1; the date must exist in the calendar.
DirY(p) == Len(p) = 4 /\ isdigit(p) /\ int(p) >= 1
DirM(p) == Len(p) \in {1, 2} /\ isdigit(p) /\ int(p) \in 1..12
DirD(p) == Len(p) \in {1, 2} /\ isdigit(p) /\ int(p) \in 1..31

\* datetime.strptime(s, fmt).date().isoformat() for the formats "%Y-%m-%d"
\* (the default) and "%d/%m/%Y"; ValueError is ok = FALSE
strptime_iso(s, fmt) ==
    LET sep == IF fmt = "%Y-%m-%d" THEN "-" ELSE "/"
        parts == split(s, sep)
    IN  IF Len(parts) # 3 THEN Exit("ValueError")
        ELSE LET py == IF fmt = "%Y-%m-%d" THEN parts[1] ELSE parts[3]
                 pm == parts[2]
                 pd == IF fmt = "%Y-%m-%d" THEN parts[3] ELSE parts[1]
             IN  IF ~(DirY(py) /\ DirM(pm) /\ DirD(pd)) THEN Exit("ValueError")
                 ELSE IF int(pd) > DaysIn(int(py), int(pm)) THEN Exit("ValueError")
                 ELSE Ok(isoformat(int(py), int(pm), int(pd)))

S_today == <<"t", "o", "d", "a", "y">>
\* date.today().isoformat(): the clock of the model shows 2024-02-01
Today == <<"2", "0", "2", "4", "-", "0", "2", "-", "0", "1">>

parse_date(s0) ==
    LET s == lower(strip(s0)) IN
    IF s = S_today THEN Ok(Today)
    ELSE LET r == strptime_iso(s, "%Y-%m-%d")
         IN  IF r.ok THEN r ELSE Exit("Invalid date. Use YYYY-MM-DD or 'today'.")

parse_month_ym(s0) ==
    LET s == strip(s0) IN
    IF Len(s) # 7 \/ s[5] # "-" THEN Exit("Month must be YYYY-MM.")
    ELSE LET k == CHOOSE i \in DOMAIN s : s[i] = "-" /\ \A j \in 1..(i - 1) : s[j] # "-"
             y == SubSeq(s, 1, k - 1)
             m == SubSeq(s, k + 1, Len(s))
         IN  IF ~(isdigit(y) /\ isdigit(m)) THEN Exit("Month must be YYYY-MM.")
             ELSE IF int(m) < 1 \/ int(m) > 12 THEN Exit("Month must be YYYY-MM.")
             ELSE Ok(s)

\* spent_on[:7], and SQL's substr(spent_on, 1, 7)
month_of(spent_on) == SubSeq(spent_on, 1, IF Len(spent_on) < 7 THEN Len(spent_on) ELSE 7)

normalize_category(s) == lower(strip(s))

(***************************************************************************)
(* The database: the three tables and their AUTOINCREMENT counters, the    *)
(* file written by the export, and the outcome of the last call.           *)
(***************************************************************************)
VARIABLES
    expenses,       \* table expenses: rows [id, spent_on, amount_cents, category, note]
    expenses_seq,   \* AUTOINCREMENT counter of expenses (largest id ever used)
    budgets,        \* table budgets: rows [month, category, amount_cents]
    rules,          \* table rules: rows [id, keyword, category, priority]
    rules_seq,      \* AUTOINCREMENT counter of rules
    csv_file,       \* the file at the export's out_path
    exported,       \* the rows the last export fetched from expenses
    last            \* the last call: its name, arguments and outcome

vars == <<expenses, expenses_seq, budgets, rules, rules_seq, csv_file, exported, last>>
db == <<expenses, expenses_seq, budgets, rules, rules_seq>>

\* a path at which no file exists
NoFile == [exists |-> FALSE, header |-> <<>>, rows |-> <<>>]
File(h, r) == [exists |-> TRUE, header |-> h, rows |-> r]

Returned(op, args, out) == [op |-> op, args |-> args, ok |-> TRUE, err |-> "none", out |-> out]
Raised(op, args, msg) == [op |-> op, args |-> args, ok |-> FALSE, err |-> msg, out |-> 0]

\* init_db on a new database file
Init ==
    /\ expenses = {}
    /\ expenses_seq = 0
    /\ budgets = {}
    /\ rules = {}
    /\ rules_seq = 0
    /\ csv_file = NoFile
    /\ exported = {}
    /\ last = Returned("init_db", <<>>, 0)

\* Python truthiness of an Optional[str]
Truthy(x) == ~x.null /\ x.s # <<>>

TextLt(a, b) == a # b /\ TextLeq(a, b)

(***************************************************************************)
(* Ledger store.                                                           *)
(***************************************************************************)
add_expense(spent_on, amount_cents, category, note) ==
    LET cat == normalize_category(category)
        n == OrNone(strip(OrEmpty(note)))
        args == [spent_on |-> spent_on, amount_cents |-> amount_cents,
                 category |-> category, note |-> note]
    IN  IF cat = <<>>
        THEN /\ last' = Raised("add_expense", args, "Category cannot be empty.")
             /\ UNCHANGED <<db, csv_file, exported>>
        ELSE /\ expenses' = expenses \cup
                    {[id |-> expenses_seq + 1, spent_on |-> spent_on,
                      amount_cents |-> amount_cents, category |-> cat, note |-> n]}
             /\ expenses_seq' = expenses_seq + 1
             /\ last' = Returned("add_expense", args, expenses_seq + 1)
             /\ UNCHANGED <<budgets, rules, rules_seq, csv_file, exported>>

\* a DELETE with `id <= ?` for its condition
DeleteWhereId_upto(E, expense_id) == {e \in E : e.id > expense_id}

\* DELETE FROM expenses WHERE id = ?
DeleteWhereId(E, expense_id) == {e \in E : e.id # expense_id}

delete_expense(expense_id) ==
    LET rowcount == Cardinality(expenses) - Cardinality(DeleteWhereId(expenses, expense_id))
    IN  /\ expenses' = DeleteWhereId(expenses, expense_id)
        /\ last' = IF rowcount = 0
                   THEN Raised("delete_expense", expense_id, "No expense found with id.")
                   ELSE Returned("delete_expense", expense_id, rowcount)
        /\ UNCHANGED <<expenses_seq, budgets, rules, rules_seq, csv_file, exported>>

RECURSIVE SumOf(_)
\* the sum of a set of integers
SumOf(S) == IF S = {} THEN 0 ELSE LET x == CHOOSE y \in S : TRUE IN x + SumOf(S \ {x})

(***************************************************************************)
(* Budget store.                                                           *)
(***************************************************************************)
\* an upsert that adds the new amount to the one in the table
Upsert_sum(B, month, category, amount_cents) ==
    {b \in B : ~(b.month = month /\ b.category = category)}
        \cup {[month |-> month, category |-> category,
                amount_cents |-> amount_cents + SumOf({b.amount_cents : b \in
                    {x \in B : x.month = month /\ x.category = category}})]}

\* INSERT ... ON CONFLICT(month, category) DO UPDATE SET amount_cents = excluded.amount_cents
Upsert(B, month, category, amount_cents) ==
    {b \in B : ~(b.month = month /\ b.category = category)}
        \cup {[month |-> month, category |-> category, amount_cents |-> amount_cents]}

set_budget(month, category, amount_cents) ==
    LET m == parse_month_ym(month)
        cat == normalize_category(category)
        args == [month |-> month, category |-> category, amount_cents |-> amount_cents]
    IN  IF ~m.ok
        THEN /\ last' = Raised("set_budget", args, m.err)
             /\ UNCHANGED <<db, csv_file, exported>>
        ELSE /\ budgets' = Upsert(budgets, m.val, cat, amount_cents)
             /\ last' = Returned("set_budget", args, 0)
             /\ UNCHANGED <<expenses, expenses_seq, rules, rules_seq, csv_file, exported>>

(***************************************************************************)
(* Rule engine.                                                            *)
(***************************************************************************)
add_rule(keyword, category, priority) ==
    LET kw == lower(strip(keyword))
        cat == normalize_category(category)
        args == [keyword |-> keyword, category |-> category, priority |-> priority]
    IN  IF kw = <<>>
        THEN /\ last' = Raised("add_rule", args, "Keyword cannot be empty.")
             /\ UNCHANGED <<db, csv_file, exported>>
        ELSE /\ rules' = rules \cup {[id |-> rules_seq + 1, keyword |-> kw,
                                      category |-> cat, priority |-> priority]}
             /\ rules_seq' = rules_seq + 1
             /\ last' = Returned("add_rule", args, rules_seq + 1)
             /\ UNCHANGED <<expenses, expenses_seq, budgets, csv_file, exported>>

\* a cursor in insertion order, without the ORDER BY
RuleBefore_by_id(a, b) == a.id < b.id

\* ORDER BY priority DESC, id ASC
RuleBefore(a, b) == a.priority > b.priority \/ (a.priority = b.priority /\ a.id < b.id)
RECURSIVE OrderRules(_)
OrderRules(R) ==
    IF R = {} THEN <<>>
    ELSE LET r == CHOOSE x \in R : \A y \in R \ {x} : RuleBefore(x, y)
         IN  <<r>> \o OrderRules(R \ {r})

S_uncategorized == <<"u", "n", "c", "a", "t", "e", "g", "o", "r", "i", "z", "e", "d">>

\* the loop over the cursor: the first row whose keyword is in t
RECURSIVE FirstMatch(_, _)
FirstMatch(rows, t) ==
    IF rows = <<>> THEN S_uncategorized
    ELSE IF contains(t, Head(rows).keyword) THEN Head(rows).category
    ELSE FirstMatch(Tail(rows), t)

\* the function of the rules table that categorize_with_rules computes
Categorize(R, text) == FirstMatch(OrderRules(R), lower(OrEmpty(text)))

categorize_with_rules(text) ==
    /\ last' = Returned("categorize_with_rules", text, Categorize(rules, text))
    /\ UNCHANGED <<db, csv_file, exported>>

(***************************************************************************)
(* CSV exchange.  A file is its header row and its data rows, each a       *)
(* sequence of fields, as csv.DictReader and csv.writer see it.            *)
(***************************************************************************)
\* row.get(col): None when the header has no such column or the row is short
RowGet(header, row, col) ==
    IF \E i \in DOMAIN header : header[i] = col /\ i <= Len(row)
    THEN Some(row[CHOOSE i \in DOMAIN header : header[i] = col /\ i <= Len(row)])
    ELSE None

\* the amount of a row: thousands separators removed, a leading "-" applied
RowAmount(raw_amt) ==
    LET amt == strip(remove(raw_amt, ","))
        neg == amt # <<>> /\ Head(amt) = "-"
        sign == IF neg THEN -1 ELSE 1
        amt_num == IF neg THEN Tail(amt) ELSE amt
        r == dollars_to_cents(amt_num)
    IN  IF r.ok THEN Ok(r.val * sign) ELSE r

\* a scan that skips only the rows that miss both fields
RowMissing_both(raw_date, raw_amt) == raw_date = <<>> /\ raw_amt = <<>>

\* `if not raw_date or not raw_amt: continue`
RowMissing(raw_date, raw_amt) == raw_date = <<>> \/ raw_amt = <<>>

\* an import that takes no notice of dry_run
ReturnsBeforeInsert_never(dry_run) == FALSE

\* `if dry_run: return len(to_insert)`: whether the call stops before the insert
ReturnsBeforeInsert(dry_run) == dry_run

\* the body of `for row in reader`: Ok(to_insert) or the SystemExit raised
RECURSIVE ScanRows(_, _, _, _, _)
ScanRows(R, header, rows, cols, to_insert) ==
    IF rows = <<>> THEN Ok(to_insert)
    ELSE LET row == Head(rows)
             raw_date == strip(OrEmpty(RowGet(header, row, cols.date_col)))
             raw_amt == strip(OrEmpty(RowGet(header, row, cols.amount_col)))
             raw_desc == strip(OrEmpty(RowGet(header, row, cols.desc_col)))
         IN  IF RowMissing(raw_date, raw_amt)
             THEN ScanRows(R, header, Tail(rows), cols, to_insert)
             ELSE LET d == strptime_iso(raw_date, cols.date_format)
                      a == RowAmount(raw_amt)
                  IN  IF ~d.ok THEN Exit("Date parse failed. Check --date-format.")
                      ELSE IF ~a.ok THEN Exit(a.err)
                      ELSE ScanRows(R, header, Tail(rows), cols,
                               Append(to_insert,
                                   [spent_on |-> d.val, amount_cents |-> a.val,
                                    category |-> Categorize(R, Some(raw_desc)),
                                    note |-> OrNone(raw_desc)]))

\* conn.executemany("INSERT INTO expenses ..."): one new id per tuple, in order
InsertMany(seq, to_insert) ==
    {[id |-> seq + i, spent_on |-> to_insert[i].spent_on,
      amount_cents |-> to_insert[i].amount_cents,
      category |-> to_insert[i].category, note |-> to_insert[i].note]
        : i \in DOMAIN to_insert}

\* f is the file at csv_path (NoFile when the path does not exist)
import_csv(f, date_col, amount_col, desc_col, date_format, dry_run) ==
    LET cols == [date_col |-> date_col, amount_col |-> amount_col,
                 desc_col |-> desc_col, date_format |-> date_format]
        args == [f |-> f, cols |-> cols, dry_run |-> dry_run]
        staged == ScanRows(rules, f.header, f.rows, cols, <<>>)
    IN  IF ~f.exists
        THEN /\ last' = Raised("import_csv", args, "CSV not found.")
             /\ UNCHANGED <<db, csv_file, exported>>
        ELSE IF f.header = <<>>
        THEN /\ last' = Raised("import_csv", args, "CSV has no headers.")
             /\ UNCHANGED <<db, csv_file, exported>>
        ELSE IF ~staged.ok
        THEN /\ last' = Raised("import_csv", args, staged.err)
             /\ UNCHANGED <<db, csv_file, exported>>
        ELSE IF ReturnsBeforeInsert(dry_run)
        THEN /\ last' = Returned("import_csv", args, Len(staged.val))
             /\ UNCHANGED <<db, csv_file, exported>>
        ELSE /\ expenses' = expenses \cup InsertMany(expenses_seq, staged.val)
             /\ expenses_seq' = expenses_seq + Len(staged.val)
             /\ last' = Returned("import_csv", args, Len(staged.val))
             /\ UNCHANGED <<budgets, rules, rules_seq, csv_file, exported>>

\* ORDER BY spent_on ASC, id ASC
RECURSIVE OrderAsc(_)
OrderAsc(E) ==
    IF E = {} THEN <<>>
    ELSE LET e == CHOOSE x \in E : \A y \in E \ {x} :
                      TextLt(x.spent_on, y.spent_on)
                          \/ (x.spent_on = y.spent_on /\ x.id < y.id)
         IN  <<e>> \o OrderAsc(E \ {e})

\* a WHERE that compares the year alone
InMonth_year(E, month) == {e \in E : SubSeq(e.spent_on, 1, 4) = SubSeq(month, 1, 4)}

\* WHERE substr(spent_on, 1, 7) = ?
InMonth(E, month) == {e \in E : month_of(e.spent_on) = month}

ExportHeader == <<"date", "amount", "category", "note">>
ExportRow(e) == <<e.spent_on, cents_to_dollars(e.amount_cents), e.category, OrEmpty(e.note)>>

export_month_csv(month) ==
    LET m == parse_month_ym(month) IN
    IF ~m.ok
    THEN /\ last' = Raised("export_month_csv", month, m.err)
         /\ UNCHANGED <<db, csv_file, exported>>
    ELSE LET rows == OrderAsc(InMonth(expenses, m.val))
         IN  /\ csv_file' = File(ExportHeader, [i \in DOMAIN rows |-> ExportRow(rows[i])])
             /\ exported' = Range(rows)
             /\ last' = Returned("export_month_csv", month, Len(rows))
             /\ UNCHANGED db

(***************************************************************************)
(* Queries.                                                                *)
(***************************************************************************)
\* SQLite's `text LIKE pattern`: "%" is any run of characters, "_" is any one
\* character, every other character matches itself without regard to case
RECURSIVE Like(_, _)
Like(text, pattern) ==
    IF pattern = <<>> THEN text = <<>>
    ELSE IF Head(pattern) = "%"
         THEN Like(text, Tail(pattern)) \/ (text # <<>> /\ Like(Tail(text), pattern))
    ELSE IF text = <<>> THEN FALSE
    ELSE IF Head(pattern) = "_" THEN Like(Tail(text), Tail(pattern))
    ELSE LowerChar(Head(pattern)) = LowerChar(Head(text)) /\ Like(Tail(text), Tail(pattern))

\* COALESCE(note,'') LIKE ? with the parameter f"%{search}%"
NoteLike(e, search) == Like(OrEmpty(e.note), <<"%">> \o search \o <<"%">>)

\* an ORDER BY id DESC, without the date
RowBefore_by_id(x, y) == x.id > y.id

\* ORDER BY spent_on DESC, id DESC: whether row x comes before row y
RowBefore(x, y) ==
    TextLt(y.spent_on, x.spent_on) \/ (x.spent_on = y.spent_on /\ x.id > y.id)

RECURSIVE OrderDesc(_)
OrderDesc(E) ==
    IF E = {} THEN <<>>
    ELSE LET e == CHOOSE x \in E : \A y \in E \ {x} : RowBefore(x, y)
         IN  <<e>> \o OrderDesc(E \ {e})

\* LIMIT ?: a negative limit is no limit
Limit(rows, limit) ==
    IF limit < 0 \/ limit >= Len(rows) THEN rows ELSE SubSeq(rows, 1, limit)

\* the WHERE clause list_expenses builds from the filters that are truthy
Where(E, category, month, date_from, date_to, search) ==
    {e \in E :
        /\ Truthy(category) => e.category = normalize_category(category.s)
        /\ Truthy(month) => month_of(e.spent_on) = parse_month_ym(month.s).val
        /\ Truthy(date_from) => TextLeq(parse_date(date_from.s).val, e.spent_on)
        /\ Truthy(date_to) => TextLeq(e.spent_on, parse_date(date_to.s).val)
        /\ Truthy(search) => NoteLike(e, search.s)}

list_expenses(limit, category, month, date_from, date_to, search) ==
    LET args == [limit |-> limit, category |-> category, month |-> month,
                 date_from |-> date_from, date_to |-> date_to, search |-> search]
    IN  /\ last' =
            IF Truthy(month) /\ ~parse_month_ym(month.s).ok
            THEN Raised("list_expenses", args, parse_month_ym(month.s).err)
            ELSE IF Truthy(date_from) /\ ~parse_date(date_from.s).ok
            THEN Raised("list_expenses", args, parse_date(date_from.s).err)
            ELSE IF Truthy(date_to) /\ ~parse_date(date_to.s).ok
            THEN Raised("list_expenses", args, parse_date(date_to.s).err)
            ELSE Returned("list_expenses", args,
                     Limit(OrderDesc(Where(expenses, category, month,
                                           date_from, date_to, search)), limit))
        /\ UNCHANGED <<db, csv_file, exported>>

RECURSIVE SumCents(_)
\* COALESCE(SUM(amount_cents), 0)
SumCents(E) == IF E = {} THEN 0
               ELSE LET e == CHOOSE x \in E : TRUE
                    IN  e.amount_cents + SumCents(E \ {e})

\* GROUP BY category: one row (category, total) per category
GroupByCategory(E) ==
    {<<c, SumCents({e \in E : e.category = c})>> : c \in {e.category : e \in E}}

\* ORDER BY <column 2> DESC: every order of the rows that the clause allows
\* (SQL leaves the order of rows with equal keys open)
OrdersDesc(S) ==
    {q \in [1..Cardinality(S) -> S] :
        /\ \A i, j \in DOMAIN q : i # j => q[i] # q[j]
        /\ \A i, j \in DOMAIN q : i < j => q[i][2] >= q[j][2]}

\* SELECT category, amount_cents FROM budgets WHERE month = ?
BudgetRows(B, month) == {<<b.category, b.amount_cents>> : b \in {x \in B : x.month = month}}

totals(month) ==
    IF Truthy(month) /\ ~parse_month_ym(month.s).ok
    THEN /\ last' = Raised("totals", month, parse_month_ym(month.s).err)
         /\ UNCHANGED <<db, csv_file, exported>>
    ELSE LET E == IF Truthy(month)
                  THEN InMonth(expenses, parse_month_ym(month.s).val) ELSE expenses
             B == IF Truthy(month)
                  THEN BudgetRows(budgets, parse_month_ym(month.s).val) ELSE {}
         IN  /\ \E by_cat \in OrdersDesc(GroupByCategory(E)) :
                \E bud \in OrdersDesc(B) :
                    last' = Returned("totals", month,
                                [total_cents |-> SumCents(E), by_cat |-> by_cat,
                                 budgets |-> bud])
             /\ UNCHANGED <<db, csv_file, exported>>

(***************************************************************************)
(* The texts the callers of the model pass in.                             *)
(***************************************************************************)
D_0105 == <<"2", "0", "2", "4", "-", "0", "1", "-", "0", "5">>
D_0120 == <<"2", "0", "2", "4", "-", "0", "1", "-", "2", "0">>
D_0201 == <<"2", "0", "2", "4", "-", "0", "2", "-", "0", "1">>
D_short == <<"2", "0", "2", "4", "-", "1", "-", "7">>
D_month13 == <<"2", "0", "2", "4", "-", "1", "3", "-", "0", "1">>
D_slash == <<"0", "5", "/", "0", "1", "/", "2", "0", "2", "4">>
D_0202 == <<"2", "0", "2", "4", "-", "0", "2", "-", "0", "2">>
M_01 == <<"2", "0", "2", "4", "-", "0", "1">>
M_02 == <<"2", "0", "2", "4", "-", "0", "2">>
M_03 == <<"2", "0", "2", "4", "-", "0", "3">>
M_03_padded == <<" ", "2", "0", "2", "4", "-", "0", "3", " ">>
M_13 == <<"2", "0", "2", "4", "-", "1", "3">>
M_00 == <<"2", "0", "2", "4", "-", "0", "0">>
M_short == <<"2", "0", "2", "4", "-", "3">>
M_slash == <<"2", "0", "2", "4", "/", "0", "3">>
M_alpha == <<"2", "0", "2", "4", "-", "a", "b">>
C_Food == <<" ", "F", "o", "o", "d", " ">>
C_food == <<"f", "o", "o", "d">>
C_rent == <<"r", "e", "n", "t">>
C_Rent == <<" ", "R", "e", "n", "t", " ">>
C_blank == <<" ", " ">>
C_dining == <<"d", "i", "n", "i", "n", "g">>
C_fastfood == <<"f", "a", "s", "t", "f", "o", "o", "d">>
C_EatOut == <<"E", "a", "t", "O", "u", "t">>
K_food == <<"f", "o", "o", "d">>
K_fast == <<"f", "a", "s", "t">>
K_Diner == <<" ", "D", "i", "n", "e", "r", " ">>
K_lunch == <<"L", "u", "n", "c", "h">>
K_blank == <<" ", " ">>
N_Lunch == <<"L", "u", "n", "c", "h">>
N_padded == <<" ", "a", "_", "c", " ">>
X_fastfood_diner == <<"F", "a", "s", "t", "f", "o", "o", "d", " ", "D", "i", "n", "e", "r">>
X_xyz == <<"x", "y", "z">>
X_LUNCH == <<"t", "e", "a", "m", " ", "L", "U", "N", "C", "H">>
A_1234 == <<"1", "2", ".", "3", "4">>
A_500 == <<"5", ".", "0", "0">>
A_thousands == <<"-", "1", ",", "0", "0", "0", ".", "5">>
A_900 == <<"9", "0", "0", ".", "0", "0">>
A_alpha == <<"a", "b", "c">>
A_3 == <<"3">>
A_minus == <<"-">>
Q_lunch == <<"L", "U", "N">>
Q_underscore == <<"_">>
Q_percent == <<"%">>
Q_a_c == <<"a", "_", "c">>
Q_zzz == <<"z", "z", "z">>
Blank == <<" ">>
Empty == <<>>

(***************************************************************************)
(* The calls of the model.                                                 *)
(***************************************************************************)
AddCall(d, a, c, n) == [spent_on |-> d, amount_cents |-> a, category |-> c, note |-> n]
BudgetCall(m, c, a) == [month |-> m, category |-> c, amount_cents |-> a]
RuleCall(k, c, p) == [keyword |-> k, category |-> c, priority |-> p]

\* add_expense, as main() calls it: spent_on comes out of parse_date
StoreAdds == {AddCall(D_0105, 1234, C_Food, Some(N_Lunch)),
              AddCall(D_0105, 5, C_blank, None)}

StoreBudgets == {BudgetCall(M_03, C_rent, 100000),
                 BudgetCall(M_13, C_rent, 1)}

StoreRules == {RuleCall(K_lunch, C_blank, 5),
               RuleCall(K_blank, C_rent, 0)}

BankHeader == <<"date", "amount", "description">>
\* two rows to stage, around a row without a date
F_bank == File(BankHeader, << <<D_0105, A_1234, X_fastfood_diner>>,
                              <<Empty, A_500, X_xyz>>,
                              <<D_short, A_thousands, Blank>> >>)
\* a date that does not parse, after a valid row
F_bad_date == File(BankHeader, << <<D_0201, A_900, X_LUNCH>>,
                                  <<D_month13, A_3, X_xyz>> >>)
\* an amount that does not parse, after a valid row and a skipped one
F_bad_amount == File(BankHeader, << <<D_0201, A_900, X_LUNCH>>,
                                    <<D_0202, Blank, X_xyz>>,
                                    <<D_0202, A_minus, X_xyz>> >>)
\* only rows without a date or without an amount
F_skips == File(BankHeader, << <<Blank, A_alpha, X_xyz>>,
                               <<D_month13, Blank, X_xyz>>,
                               <<D_0105>>,
                               <<Empty, A_minus, X_xyz>> >>)
\* day/month/year dates
F_slash == File(BankHeader, << <<D_slash, A_3, X_LUNCH>> >>)

ImportCall(f, fmt) == [f |-> f, date_format |-> fmt]
StoreImports == {ImportCall(F_bank, "%Y-%m-%d"),
                 ImportCall(F_bad_date, "%Y-%m-%d"),
                 ImportCall(F_bad_amount, "%Y-%m-%d"),
                 ImportCall(F_skips, "%Y-%m-%d"),
                 ImportCall(F_slash, "%Y-%m-%d"),
                 ImportCall(F_slash, "%d/%m/%Y"),
                 ImportCall(NoFile, "%Y-%m-%d")}

(***************************************************************************)
(* Spec: the store under add, delete, budget-set, rule-add and import.     *)
(***************************************************************************)
StoreBounded == expenses_seq' <= MaxStoreExpenses /\ rules_seq' <= MaxStoreRules

StoreAdd ==
    \E c \in StoreAdds :
        add_expense(c.spent_on, c.amount_cents, c.category, c.note) /\ StoreBounded
StoreDelete == \E id \in 0..MaxStoreExpenses : delete_expense(id)
StoreSetBudget == \E c \in StoreBudgets : set_budget(c.month, c.category, c.amount_cents)
StoreAddRule ==
    \E c \in StoreRules : add_rule(c.keyword, c.category, c.priority) /\ StoreBounded
StoreImport ==
    \E c \in StoreImports : \E dry_run \in BOOLEAN :
        import_csv(c.f, "date", "amount", "description", c.date_format, dry_run)
            /\ StoreBounded

Next == StoreAdd \/ StoreDelete \/ StoreSetBudget \/ StoreAddRule \/ StoreImport

Spec == Init /\ [][Next]_vars

(***************************************************************************)
(* Claims about the store (Spec).                                          *)
(***************************************************************************)

\* C1: every stored transaction has a category that is normalized (trimmed,
\* lower-cased) and not empty, whatever sequence of add, delete, rule-add,
\* budget-set and import calls produced the store.
C1_CategoryNormalizedNonEmpty ==
    \A e \in expenses :
        e.category # <<>> /\ e.category = lower(strip(e.category))

\* the rows of the imported file that have both a date and an amount
PresentRows(args) ==
    {i \in DOMAIN args.f.rows :
        /\ strip(OrEmpty(RowGet(args.f.header, args.f.rows[i], args.cols.date_col))) # <<>>
        /\ strip(OrEmpty(RowGet(args.f.header, args.f.rows[i], args.cols.amount_col))) # <<>>}

\* C3: an import that is a dry run leaves transactions, budgets and rules as
\* they were, whether it returns or fails, and the count it returns is the
\* number of rows that have both a date and an amount.
C3_DryRunLeavesStore ==
    [][(last'.op = "import_csv" /\ last'.args.dry_run)
        => /\ expenses' = expenses
           /\ budgets' = budgets
           /\ rules' = rules
           /\ last'.ok => last'.out = Cardinality(PresentRows(last'.args))]_vars

C3_Witness ==
    /\ last.op = "import_csv" /\ last.args.dry_run /\ last.ok
    /\ last.out = 2 /\ Len(last.args.f.rows) = 3
    /\ expenses # {} /\ rules # {}

\* a row with a date and an amount whose date does not parse under the
\* format or whose amount is malformed
BadRow(args, i) ==
    /\ i \in PresentRows(args)
    /\ \/ ~strptime_iso(strip(OrEmpty(RowGet(args.f.header, args.f.rows[i], args.cols.date_col))),
                        args.cols.date_format).ok
       \/ ~RowAmount(strip(OrEmpty(RowGet(args.f.header, args.f.rows[i],
                                          args.cols.amount_col)))).ok

\* C4: an import of a file fails exactly when some row that has a date and an
\* amount has a date that does not parse or a malformed amount; a failed
\* import persists nothing, dry run or commit, and rows without a date or an
\* amount are skipped without failing.
C4_FailFastNoPartial ==
    [][(last'.op = "import_csv" /\ last'.args.f.exists /\ last'.args.f.header # <<>>)
        => /\ (~last'.ok) <=> (\E i \in DOMAIN last'.args.f.rows : BadRow(last'.args, i))
           /\ (~last'.ok) => (expenses' = expenses /\ expenses_seq' = expenses_seq)]_vars

\* a committed import failed on its second row after a valid first row
C4_Witness ==
    /\ last.op = "import_csv" /\ ~last.args.dry_run /\ ~last.ok
    /\ \E i \in DOMAIN last.args.f.rows :
          BadRow(last.args, i) /\ i > 1 /\ \A j \in 1..(i - 1) : ~BadRow(last.args, j)
    /\ 1 \in PresentRows(last.args)
    /\ expenses # {}

\* C5: delete of an id no transaction has fails and leaves transactions,
\* budgets and rules as they were; delete of an id a transaction has removes
\* that transaction and no other.
C5_DeleteExactlyOne ==
    [][last'.op = "delete_expense"
        => IF \E e \in expenses : e.id = last'.args
           THEN /\ last'.ok
                /\ expenses' \subseteq expenses
                /\ \A e \in expenses : (e \in expenses') <=> (e.id # last'.args)
           ELSE /\ ~last'.ok
                /\ expenses' = expenses /\ budgets' = budgets /\ rules' = rules]_vars

\* a delete of an id that was deleted before failed, on a store that holds
\* a transaction, a budget and a rule
C5_Witness ==
    /\ last.op = "delete_expense" /\ ~last.ok
    /\ expenses # {} /\ budgets # {} /\ rules # {}
    /\ last.args \in 1..expenses_seq

(***************************************************************************)
(* SpecBudget: the budgets table under budget-set.                         *)
(***************************************************************************)
BudgetCalls ==
    {BudgetCall(m, c, a) :
        m \in {M_03, M_03_padded, M_01, M_13, M_00, M_short, M_slash, M_alpha},
        c \in {C_rent, C_Rent, C_Food},
        a \in {100000, 120000}}

BudgetSet == \E c \in BudgetCalls : set_budget(c.month, c.category, c.amount_cents)

NextBudget == BudgetSet

SpecBudget == Init /\ [][NextBudget]_vars

\* a month as budget-set accepts it: YYYY-MM, the month number in 1..12,
\* blanks around it aside
ValidMonth(month) ==
    LET s == strip(month) IN
    /\ Len(s) = 7
    /\ s[5] = "-"
    /\ \A i \in {1, 2, 3, 4, 6, 7} : s[i] \in Range(DigitChars)
    /\ \E n \in 1..12 : <<s[6], s[7]>> = fmt02d(n)

SameKey(b, month, category) == b.month = strip(month) /\ b.category = lower(strip(category))

\* C6: there is at most one budget per (month, normalized category); a set
\* with a valid month leaves exactly one budget for its key, with the limit
\* of that call, and every other budget as it was; a set with an invalid
\* month fails and leaves all budgets as they were.
C6_BudgetUpsert ==
    /\ [](\A a, b \in budgets :
            (a.month = b.month /\ a.category = b.category) => a = b)
    /\ [][last'.op = "set_budget"
          => IF ValidMonth(last'.args.month)
             THEN /\ last'.ok
                  /\ \E b \in budgets' :
                        /\ SameKey(b, last'.args.month, last'.args.category)
                        /\ b.amount_cents = last'.args.amount_cents
                        /\ \A x \in budgets' :
                              SameKey(x, last'.args.month, last'.args.category) => x = b
                  /\ {x \in budgets' : ~SameKey(x, last'.args.month, last'.args.category)}
                        = {x \in budgets : ~SameKey(x, last'.args.month, last'.args.category)}
             ELSE /\ ~last'.ok
                  /\ budgets' = budgets]_vars

\* every key of the model holds a budget, and the last set, of a month with
\* blanks around it and a category in capitals, set a limit the first set of
\* a key cannot have left
C6_Witness ==
    /\ last.op = "set_budget" /\ last.ok
    /\ last.args.month = M_03_padded /\ last.args.category = C_Rent
    /\ Cardinality(budgets) = 4
    /\ \E b \in budgets : b.month = M_03 /\ b.category = C_rent /\ b.amount_cents = 120000
    /\ \E b \in budgets : b.month = M_03 /\ b.category = C_food /\ b.amount_cents = 100000

(***************************************************************************)
(* SpecRules: the rules table under rule-add, and the classification of    *)
(* texts against it.                                                       *)
(***************************************************************************)
RuleCalls == {RuleCall(K_food, C_dining, 1),
              RuleCall(K_fast, C_fastfood, 5),
              RuleCall(K_Diner, C_EatOut, 1),
              RuleCall(K_lunch, C_blank, 5),
              RuleCall(K_blank, C_rent, 0)}

ClassifyTexts == {Some(X_fastfood_diner), Some(X_xyz), Some(X_LUNCH), Some(Empty), None}

RulesAdd ==
    \E c \in RuleCalls : add_rule(c.keyword, c.category, c.priority) /\ rules_seq' <= MaxRules
RulesClassify == \E t \in ClassifyTexts : categorize_with_rules(t)

NextRules == RulesAdd \/ RulesClassify

SpecRules == Init /\ [][NextRules]_vars

\* the rules whose keyword is a substring of the lower-cased text
Matching(text) ==
    LET t == lower(OrEmpty(text))
    IN  {r \in rules : \E i \in 1..Len(t) : \E j \in i..Len(t) : SubSeq(t, i, j) = r.keyword}

\* C7: classify returns the category of the matching rule that comes first
\* by priority descending, then id ascending, and "uncategorized" when no
\* rule matches or the text is empty.
C7_ClassifyFirstByPriority ==
    last.op = "categorize_with_rules"
        => IF Matching(last.args) = {} \/ OrEmpty(last.args) = <<>>
           THEN last.out = S_uncategorized
           ELSE \E r \in Matching(last.args) :
                    /\ last.out = r.category
                    /\ \A q \in Matching(last.args) \ {r} :
                          \/ r.priority > q.priority
                          \/ (r.priority = q.priority /\ r.id < q.id)

\* the rule that won was added after a matching rule of lower priority
C7_Witness ==
    /\ last.op = "categorize_with_rules"
    /\ \E r, q \in Matching(last.args) :
          /\ r.id > q.id /\ r.priority > q.priority
          /\ r.category # q.category /\ last.out = r.category

(***************************************************************************)
(* SpecLedger: the expenses table under add and delete, and the list       *)
(* query over it.                                                          *)
(***************************************************************************)
LedgerAdds == {AddCall(D_0105, 1234, C_Food, Some(N_Lunch)),
               AddCall(D_0201, 90000, C_rent, None),
               AddCall(D_0120, -500, C_food, Some(N_padded))}

ListCall(l, c, m, f, t, q) ==
    [limit |-> l, category |-> c, month |-> m, date_from |-> f, date_to |-> t, search |-> q]

\* the filters on category, month and dates, alone and together
ListCalls ==
    {ListCall(20, None, m, f, t, None) :
        m \in {None, Some(M_01), Some(M_13)},
        f \in {None, Some(D_0105), Some(S_today)},
        t \in {None, Some(D_0120)}}
    \cup {ListCall(20, Some(C_Food), m, f, None, None) :
            m \in {None, Some(M_01)}, f \in {None, Some(D_0120)}}
    \cup {ListCall(l, c, None, None, None, None) :
            l \in {-1, 0, 1, 2}, c \in {None, Some(Empty)}}
    \cup {ListCall(1, Some(C_rent), None, None, None, None)}
    \cup {ListCall(20, None, None, Some(D_month13), None, None),
          ListCall(20, None, None, None, Some(D_month13), None)}

\* the filter on the note
SearchCalls ==
    {ListCall(20, None, None, None, None, Some(q)) :
        q \in {Q_lunch, Q_underscore, Q_percent, Q_a_c, Q_zzz, Empty}}

LedgerAdd ==
    \E c \in LedgerAdds :
        add_expense(c.spent_on, c.amount_cents, c.category, c.note)
            /\ expenses_seq' <= MaxLedgerExpenses
LedgerDelete == \E id \in 1..MaxLedgerExpenses : delete_expense(id)
LedgerList ==
    \E c \in ListCalls \cup SearchCalls :
        list_expenses(c.limit, c.category, c.month, c.date_from, c.date_to, c.search)

NextLedger == LedgerAdd \/ LedgerDelete \/ LedgerList

SpecLedger == Init /\ [][NextLedger]_vars

\* s is a substring of t, letter case aside
SubstringNoCase(s, t) ==
    \E i \in 0..(Len(t) - Len(s)) :
        \A k \in 1..Len(s) : LowerChar(t[i + k]) = LowerChar(s[k])

\* C8: a list query with a note filter s returns the transactions whose note
\* (an absent note counting as empty) has s as a substring, letter case
\* aside, also when s holds "%" or "_".
C8_NoteFilterIsSubstring ==
    (/\ last.op = "list_expenses" /\ last.ok
     /\ ~last.args.search.null
     /\ last.args.category.null /\ last.args.month.null
     /\ last.args.date_from.null /\ last.args.date_to.null
     /\ last.args.limit >= Cardinality(expenses))
        => Range(last.out) = {e \in expenses : SubstringNoCase(last.args.search.s, OrEmpty(e.note))}

\* a date YYYY-MM-DD as the number YYYYMMDD
DateNumber(d) == int(SubSeq(d, 1, 4)) * 10000 + int(SubSeq(d, 6, 7)) * 100 + int(SubSeq(d, 9, 10))

\* the filter values of a call: a date filter is a date or "today"
FromDate(args) == IF lower(strip(args.date_from.s)) = S_today THEN Today ELSE strip(args.date_from.s)
ToDate(args) == IF lower(strip(args.date_to.s)) = S_today THEN Today ELSE strip(args.date_to.s)

\* the transactions that satisfy every filter the call supplies
Selected(args) ==
    {e \in expenses :
        /\ (~args.category.null /\ args.category.s # <<>>)
              => e.category = lower(strip(args.category.s))
        /\ (~args.month.null /\ args.month.s # <<>>)
              => SubSeq(e.spent_on, 1, 7) = strip(args.month.s)
        /\ (~args.date_from.null /\ args.date_from.s # <<>>)
              => DateNumber(e.spent_on) >= DateNumber(FromDate(args))
        /\ (~args.date_to.null /\ args.date_to.s # <<>>)
              => DateNumber(e.spent_on) <= DateNumber(ToDate(args))}

\* row x comes before row y by date descending, then id descending
NewerFirst(x, y) ==
    \/ DateNumber(x.spent_on) > DateNumber(y.spent_on)
    \/ (DateNumber(x.spent_on) = DateNumber(y.spent_on) /\ x.id > y.id)

ReportAdds == {AddCall(D_0105, 1234, C_Food, Some(N_Lunch)),
               AddCall(D_0201, 90000, C_rent, None),
               AddCall(D_0120, -500, C_food, None),
               AddCall(D_0105, 1234, C_rent, None)}

ReportBudgets == {BudgetCall(M_01, C_Food, 5000),
                  BudgetCall(M_01, C_rent, 5000),
                  BudgetCall(M_02, C_rent, 100000),
                  BudgetCall(M_13, C_rent, 1)}

TotalsMonths == {None, Some(Empty), Some(M_01), Some(M_02), Some(M_13)}

ReportAdd ==
    \E c \in ReportAdds :
        add_expense(c.spent_on, c.amount_cents, c.category, c.note)
            /\ expenses_seq' <= MaxReportExpenses
ReportDelete == \E id \in 1..MaxReportExpenses : delete_expense(id)
ReportSetBudget == \E c \in ReportBudgets : set_budget(c.month, c.category, c.amount_cents)
ReportTotals == \E m \in TotalsMonths : totals(m)

NextReport == ReportAdd \/ ReportDelete \/ ReportSetBudget \/ ReportTotals

SpecReport == Init /\ [][NextReport]_vars

\* the sum of amount_cents over the rows of E, taken id by id
RECURSIVE AmountUpTo(_, _)
AmountUpTo(E, n) ==
    IF n = 0 THEN 0
    ELSE AmountUpTo(E, n - 1)
            + (IF \E e \in E : e.id = n THEN (CHOOSE e \in E : e.id = n).amount_cents ELSE 0)
Amount(E) == AmountUpTo(E, expenses_seq)

\* the sum of the totals of the first n entries of a breakdown
RECURSIVE EntriesUpTo(_, _)
EntriesUpTo(q, n) == IF n = 0 THEN 0 ELSE EntriesUpTo(q, n - 1) + q[n][2]

\* the transactions a totals call is about
InScope(month) ==
    IF month.null \/ month.s = <<>> THEN expenses
    ELSE {e \in expenses : SubSeq(e.spent_on, 1, 7) = strip(month.s)}

\* C9: totals returns the sum of the amounts of the transactions of the month
\* (of all transactions without a month); one entry per category among them,
\* with the sum of that category, in non-increasing order of sum, the
\* entries adding up to the grand total; and the budgets of the month, none
\* without a month.
C9_TotalsAggregation ==
    (last.op = "totals" /\ last.ok)
        => LET E == InScope(last.args)
               by_cat == last.out.by_cat
               bud == last.out.budgets
           IN  /\ last.out.total_cents = Amount(E)
               /\ {by_cat[i][1] : i \in DOMAIN by_cat} = {e.category : e \in E}
               /\ \A i, j \in DOMAIN by_cat : i # j => by_cat[i][1] # by_cat[j][1]
               /\ \A i \in DOMAIN by_cat :
                     by_cat[i][2] = Amount({e \in E : e.category = by_cat[i][1]})
               /\ \A i, j \in DOMAIN by_cat : i < j => by_cat[i][2] >= by_cat[j][2]
               /\ EntriesUpTo(by_cat, Len(by_cat)) = last.out.total_cents
               /\ IF last.args.null \/ last.args.s = <<>>
                  THEN bud = <<>>
                  ELSE /\ {bud[i] : i \in DOMAIN bud}
                            = {<<b.category, b.amount_cents>> :
                                  b \in {x \in budgets : x.month = strip(last.args.s)}}
                       /\ \A i, j \in DOMAIN bud : i # j => bud[i] # bud[j]

\* totals of a month with two categories and a budget, on a table that also
\* holds a transaction of another month
C9_Witness ==
    /\ last.op = "totals" /\ last.ok /\ Truthy(last.args)
    /\ Len(last.out.by_cat) = 2 /\ Len(last.out.budgets) >= 1
    /\ last.out.by_cat[1][2] > last.out.by_cat[2][2]
    /\ InScope(last.args) # expenses

(***************************************************************************)
(* SpecExchange: a month exported to a file, and that file imported again  *)
(* with its note column for the description.                               *)
(***************************************************************************)
ExchangeAdds == {AddCall(D_0105, 90005, C_Food, Some(N_Lunch)),
                 AddCall(D_0120, -5, C_rent, None)}

ExchangeRules == {RuleCall(K_lunch, C_food, 1)}

ExportMonths == {M_01, M_13}

ExchangeBounded ==
    expenses_seq' <= MaxExchangeExpenses /\ rules_seq' <= MaxExchangeRules

ExchangeAdd ==
    \E c \in ExchangeAdds :
        add_expense(c.spent_on, c.amount_cents, c.category, c.note) /\ ExchangeBounded
ExchangeDelete == \E id \in 1..MaxExchangeExpenses : delete_expense(id)
ExchangeAddRule ==
    \E c \in ExchangeRules : add_rule(c.keyword, c.category, c.priority) /\ ExchangeBounded
ExchangeExport == \E m \in ExportMonths : export_month_csv(m)
ExchangeImport ==
    import_csv(csv_file, "date", "amount", "note", "%Y-%m-%d", FALSE) /\ ExchangeBounded

NextExchange ==
    ExchangeAdd \/ ExchangeDelete \/ ExchangeAddRule \/ ExchangeExport \/ ExchangeImport

SpecExchange == Init /\ [][NextExchange]_vars

\* a step that commits the import of the exported file, its note column
\* taken for the description, into a table that holds none of the exported rows
Reimport ==
    /\ last'.op = "import_csv" /\ last'.ok /\ ~last'.args.dry_run
    /\ csv_file.exists /\ last'.args.f = csv_file
    /\ last'.args.cols.desc_col = "note"
    /\ exported \cap expenses = {}

Tuples4(E) == {<<e.spent_on, e.amount_cents, e.category, e.note>> : e \in E}
Tuples3(E) == {<<e.spent_on, e.amount_cents, e.note>> : e \in E}

\* C2 as claimed: the re-imported transactions have the (date, amount,
\* category, note) tuples of the exported ones.
C2_RoundTripWithCategory ==
    [][Reimport => Tuples4(expenses' \ expenses) = Tuples4(exported)]_vars

\* the category the rules give a note: that of the matching rule first by
\* priority descending, then id ascending
ClassOf(note) ==
    IF Matching(note) = {} THEN S_uncategorized
    ELSE (CHOOSE r \in Matching(note) :
            \A q \in Matching(note) \ {r} :
                r.priority > q.priority \/ (r.priority = q.priority /\ r.id < q.id)).category

\* a step that commits the import of the exported file, its note column
\* taken for the description, into any table
ReimportAnywhere ==
    /\ last'.op = "import_csv" /\ last'.ok /\ ~last'.args.dry_run
    /\ csv_file.exists /\ last'.args.f = csv_file
    /\ last'.args.cols.desc_col = "note"

\* C2 as amended: the re-imported transactions have the (date, amount, note)
\* tuples of the exported ones, and each has the category the rules of the
\* importing store give its note.
C2_RoundTripReclassified ==
    [][ReimportAnywhere
        => /\ Tuples3(expenses' \ expenses) = Tuples3(exported)
           /\ \A e \in expenses' \ expenses : e.category = ClassOf(e.note)]_vars

\* the exported file was imported again: a row with a negative amount and no
\* note came back under the category "uncategorized"
C2_Witness ==
    /\ last.op = "import_csv" /\ last.ok /\ ~last.args.dry_run /\ last.out >= 1
    /\ last.args.f = csv_file /\ exported # {} /\ exported \cap expenses = {}
    /\ \E e \in expenses : \E x \in exported :
          /\ e.amount_cents < 0 /\ e.note.null
          /\ <<e.spent_on, e.amount_cents, e.note>> = <<x.spent_on, x.amount_cents, x.note>>
          /\ e.category = S_uncategorized /\ x.category # e.category

(***************************************************************************)
(* The money conversions on their own: an amount of cents is rendered by   *)
(* cents_to_dollars and the rendering is read back by dollars_to_cents.    *)
(***************************************************************************)
MaxCents == 1000000

\* the rendering of an amount of cents, as `list` and `export` print it
MoneyFormat ==
    /\ last.op = "init_db"
    /\ \E x \in 0..MaxCents :
          last' = Returned("cents_to_dollars", x, cents_to_dollars(x))
    /\ UNCHANGED <<db, csv_file, exported>>

\* the rendering read back as an amount, as `add` reads its argument
MoneyParse ==
    /\ last.op = "cents_to_dollars"
    /\ LET r == dollars_to_cents(last.out)
       IN  last' = IF r.ok THEN Returned("dollars_to_cents", last.out, r.val)
                           ELSE Raised("dollars_to_cents", last.out, r.err)
    /\ UNCHANGED <<db, csv_file, exported>>

NextMoney == MoneyFormat \/ MoneyParse

SpecMoney == Init /\ [][NextMoney]_vars

\* "d.cc": digits, one point, exactly two digits
TwoFractionalDigits(t) ==
    /\ count(t, ".") = 1
    /\ LET parts == split(t, ".")
       IN  isdigit(parts[1]) /\ isdigit(parts[2]) /\ Len(parts[2]) = 2

\* C11: for every amount x of cents in 0..1000000, cents_to_dollars(x) is
\* digits, one point and exactly two digits, and dollars_to_cents of that
\* text returns x.
C11_MoneyRoundTrip ==
    [][/\ (last'.op = "cents_to_dollars" /\ last'.args \in 0..1000000)
            => TwoFractionalDigits(last'.out)
       /\ (last.op = "cents_to_dollars" /\ last.args \in 0..1000000
              /\ last'.op = "dollars_to_cents")
            => last'.ok /\ last'.out = last.args]_vars

\* an amount with a one-digit count of cents under a dollar part of several
\* digits has been rendered and read back
C11_Witness ==
    /\ last.op = "dollars_to_cents" /\ last.ok
    /\ last.out = 123405
    /\ last.args = <<"1", "2", "3", "4", ".", "0", "5">>

====
